---- MODULE Spec2Model ----
(***************************************************************************)
(* Model of internal/providers/terraform/terragrunt_provider.go:           *)
(* TerragruntProvider.LoadResources, getProjectDirs, generateStateJSONs,   *)
(* DirProvider.generatePlanJSONs and cleanupPlanFiles.                     *)
(*                                                                         *)
(* A path is a sequence of its components ("/a/x" is <<"/", "a", "x">>,    *)
(* the empty string is <<>>).  A byte string is a sequence of strings.     *)
(* The standard output of terragrunt-info is a sequence of tokens: the     *)
(* bytes '{', '}', newline and ',', one token per quoted "key":"value"     *)
(* member (its first and last bytes are quotes, it holds no raw newline),  *)
(* and a token for a run of bytes that is not JSON.                        *)
(***************************************************************************)
EXTENDS Integers, Sequences, FiniteSets, TLC

\* ------------------------------------------------------------------ bounds
MaxDocs == 3

\* --------------------------------------------------------------- constants
Modules == {"a", "b"}
PlanName == "tfplan"
NoPath == <<>>

\* ------------------------------------------------------------------- paths
\* filepath.Dir: all but the last element of the path; "." for a path with
\* no directory part; the root stays the root.
DirAsFile(p) == p

Dir(p) ==
    IF Len(p) = 0 THEN <<".">>
    ELSE IF Len(p) = 1 THEN (IF p[1] = "/" THEN p ELSE <<".">>)
    ELSE SubSeq(p, 1, Len(p) - 1)

\* filepath.Join(dir, name): empty elements are ignored.
Join(dir, name) ==
    IF name = "" THEN dir ELSE Append(dir, name)

\* --------------------------------------------- the terragrunt-info stream
LB == [t |-> "{", k |-> "", v |-> NoPath]
RB == [t |-> "}", k |-> "", v |-> NoPath]
NL == [t |-> "nl", k |-> "", v |-> NoPath]
COMMA == [t |-> ",", k |-> "", v |-> NoPath]
JUNK == [t |-> "x", k |-> "", v |-> NoPath]
Member(key, val) == [t |-> "m", k |-> key, v |-> val]

ConfigPathOf(m) == <<"/", m, "terragrunt.hcl">>
WorkingDirOf(m) == <<"/", m, ".terragrunt-cache">>

\* What terragrunt-info prints for one sub-configuration, without the
\* newline that follows its closing brace.  "compact" and "pretty" are the
\* one-line and the indented layout; "extra" has the members in the other
\* order and a further member whose value ends in a closing brace;
\* "truncated" lacks its closing brace and "junk" is a line that is no JSON.
Layouts == {"compact", "pretty", "extra", "truncated", "junk"}
WellFormedLayouts == {"compact", "pretty", "extra"}

DocBytes(d) ==
    LET cp == Member("ConfigPath", ConfigPathOf(d.mod))
        wd == Member("WorkingDir", WorkingDirOf(d.mod))
    IN  CASE d.layout = "compact" -> <<LB, cp, COMMA, wd, RB>>
          [] d.layout = "pretty" -> <<LB, NL, cp, COMMA, NL, wd, NL, RB>>
          [] d.layout = "extra" ->
                <<LB, NL, wd, COMMA, NL,
                  Member("TerraformCommand", <<"x}">>), COMMA, NL, cp, NL, RB>>
          [] d.layout = "truncated" -> <<LB, NL, cp, COMMA, NL>>
          [] OTHER -> <<JUNK>>

DocKinds ==
    [mod : Modules, layout : WellFormedLayouts]
        \cup [mod : {"a"}, layout : Layouts \ WellFormedLayouts]

WellFormed(d) == d.layout \in WellFormedLayouts

\* The stream of a sequence of documents: each document is followed by a
\* newline, except that the last one is when `terminated` says so.
RECURSIVE StreamOf(_, _)
StreamOf(ds, terminated) ==
    IF ds = <<>> THEN <<>>
    ELSE IF Len(ds) = 1
         THEN DocBytes(ds[1]) \o (IF terminated THEN <<NL>> ELSE <<>>)
         ELSE DocBytes(ds[1]) \o <<NL>> \o StreamOf(Tail(ds), terminated)

\* bytes.SplitAfter(out, "}\n"): the pieces of `out` after each occurrence
\* of the separator, the separator kept at the end of its piece, and the
\* rest of the bytes (possibly none) as the last piece.
RECURSIVE SplitFrom(_, _)
SplitFrom(rest, cur) ==
    IF rest = <<>> THEN <<cur>>
    ELSE IF Len(rest) >= 2 /\ rest[1] = RB /\ rest[2] = NL
         THEN <<cur \o <<RB, NL>>>> \o SplitFrom(SubSeq(rest, 3, Len(rest)), <<>>)
         ELSE SplitFrom(Tail(rest), Append(cur, Head(rest)))

SplitAfter(s) == SplitFrom(s, <<>>)

\* if len(jsons) > 1 { jsons = jsons[:len(jsons)-1] }
TrimAlways(jsons) == SubSeq(jsons, 1, Len(jsons) - 1)

TrimTrailing(jsons) ==
    IF Len(jsons) > 1 THEN SubSeq(jsons, 1, Len(jsons) - 1) ELSE jsons

\* json.Unmarshal(j, &info) into TerragruntInfo{ConfigPath, WorkingDir}:
\* white space is skipped; the value must be one object, '{', members
\* separated by commas, '}'; a member the struct does not have is ignored;
\* a field no member names stays the empty string.
IsSpace(tok) == tok = NL

RECURSIVE LastValue(_, _, _)
LastValue(ms, key, dflt) ==
    IF ms = <<>> THEN dflt
    ELSE LET m == ms[Len(ms)]
         IN  IF m.t = "m" /\ m.k = key THEN m.v
             ELSE LastValue(SubSeq(ms, 1, Len(ms) - 1), key, dflt)

Unmarshal(j) ==
    LET toks == SelectSeq(j, LAMBDA tok : ~IsSpace(tok))
        n == Len(toks)
        inner == IF n >= 2 THEN SubSeq(toks, 2, n - 1) ELSE <<>>
        members ==
            \/ inner = <<>>
            \/ /\ Len(inner) % 2 = 1
               /\ \A x \in 1..Len(inner) :
                    inner[x].t = (IF x % 2 = 1 THEN "m" ELSE ",")
        ok == n >= 2 /\ toks[1] = LB /\ toks[n] = RB /\ members
    IN  [ok |-> ok,
         ConfigPath |-> IF ok THEN LastValue(inner, "ConfigPath", NoPath) ELSE NoPath,
         WorkingDir |-> IF ok THEN LastValue(inner, "WorkingDir", NoPath) ELSE NoPath]

\* The loop of getProjectDirs over the segments: stops at the first segment
\* that does not decode, keeping what was appended before it.
RECURSIVE DecodeFromAllOrNothing(_, _, _)
DecodeFromAllOrNothing(jsons, cds, wds) ==
    IF jsons = <<>> THEN [configDirs |-> cds, workingDirs |-> wds, err |-> FALSE]
    ELSE LET info == Unmarshal(Head(jsons))
         IN  IF ~info.ok
             THEN [configDirs |-> <<>>, workingDirs |-> <<>>, err |-> TRUE]
             ELSE DecodeFromAllOrNothing(Tail(jsons),
                                         Append(cds, Dir(info.ConfigPath)),
                                         Append(wds, info.WorkingDir))

RECURSIVE DecodeFromConfigDirFirst(_, _, _)
DecodeFromConfigDirFirst(jsons, cds, wds) ==
    IF jsons = <<>> THEN [configDirs |-> cds, workingDirs |-> wds, err |-> FALSE]
    ELSE LET info == Unmarshal(Head(jsons))
         IN  IF ~info.ok
             THEN [configDirs |-> Append(cds, Dir(info.ConfigPath)),
                   workingDirs |-> wds, err |-> TRUE]
             ELSE DecodeFromConfigDirFirst(Tail(jsons),
                                           Append(cds, Dir(info.ConfigPath)),
                                           Append(wds, info.WorkingDir))

RECURSIVE DecodeFrom(_, _, _)
DecodeFrom(jsons, cds, wds) ==
    IF jsons = <<>> THEN [configDirs |-> cds, workingDirs |-> wds, err |-> FALSE]
    ELSE LET info == Unmarshal(Head(jsons))
         IN  IF ~info.ok
             THEN [configDirs |-> cds, workingDirs |-> wds, err |-> TRUE]
             ELSE DecodeFrom(Tail(jsons),
                             Append(cds, Dir(info.ConfigPath)),
                             Append(wds, info.WorkingDir))

DecodeDirs(out) == DecodeFrom(TrimTrailing(SplitAfter(out)), <<>>, <<>>)

\* ------------------------------------------------------------------- state
VARIABLES
    pc,          \* the statement LoadResources and its callee are at
    useState,    \* p.UseState
    docs,        \* the documents terragrunt-info printed (environment)
    terminated,  \* whether a newline follows the last document
    out,         \* out of getProjectDirs: the bytes of the discovery command
    configDirs,  \* configDirs, as returned by getProjectDirs
    workingDirs, \* workingDirs, as returned by getProjectDirs
    dirsErr,     \* "" | "cmd" | "decode": the error of getProjectDirs
    optsFile,    \* opts.TerraformConfigFile of the current iteration
    planFile,    \* planFile of generatePlanJSONs
    planJSON,    \* planJSON of generatePlanJSONs
    planErr,     \* err of runPlan
    outs,        \* the local outs of the generate function
    i,           \* loop index over configDirs (1-based)
    ret,         \* what the generate function's return statement returned
    deferred,    \* the deferred calls of the generate function, last first
    cl,          \* the running cleanupPlanFiles call: index and error
    fs,          \* files that exist: override files and plan files
    nTmp,        \* number of override files created so far
    events,      \* history: commands run and files removed, in order
    projects,    \* projects of LoadResources
    result       \* "" | "ok" | "err" | "panic": how LoadResources ended

vars == <<pc, useState, docs, terminated, out, configDirs, workingDirs, dirsErr,
          optsFile, planFile, planJSON, planErr, outs, i, ret, deferred, cl,
          fs, nTmp, events, projects, result>>

discoveryVars == <<docs, terminated, out, configDirs, workingDirs, dirsErr>>
planVars == <<planFile, planJSON, planErr>>
loopVars == <<optsFile, outs, i>>

Event(op, dir, arg, ok) == [op |-> op, dir |-> dir, arg |-> arg, ok |-> ok]
NoRet == [set |-> FALSE, outs |-> <<>>, err |-> ""]
Return(os, e) == [set |-> TRUE, outs |-> os, err |-> e]
NoCleanup == [active |-> FALSE, idx |-> 0, err |-> FALSE]
OverrideFile(n) == <<"/", "tmp", "override", ToString(n)>>

\* The bytes a show command prints; they depend on the directory it ran in
\* and on the plan file it was pointed at.
ShowOut(dir, plan) == <<"show">> \o dir \o <<"plan">> \o plan
UnifiedJSON == <<"unified-plan-json">>

Streams == UNION {[1..n -> DocKinds] : n \in 0..MaxDocs}

Init ==
    /\ pc = "start"
    /\ useState \in BOOLEAN
    /\ docs = <<>>
    /\ terminated = TRUE
    /\ out = <<>>
    /\ configDirs = <<>>
    /\ workingDirs = <<>>
    /\ dirsErr = ""
    /\ optsFile = NoPath
    /\ planFile = ""
    /\ planJSON = <<>>
    /\ planErr = FALSE
    /\ outs = <<>>
    /\ i = 0
    /\ ret = NoRet
    /\ deferred = <<>>
    /\ cl = NoCleanup
    /\ fs = {}
    /\ nTmp = 0
    /\ events = <<>>
    /\ projects = <<>>
    /\ result = ""

\* ---------------------------------------------------------- getProjectDirs
\* out, err := Cmd(opts, "run-all", ..., "terragrunt-info"); on an error
\* return []string{}, []string{}, err.
DiscoverFails ==
    /\ pc = "start"
    /\ dirsErr' = "cmd"
    /\ events' = Append(events, Event("discover", NoPath, NoPath, FALSE))
    /\ pc' = "dirs_ret"
    /\ UNCHANGED <<useState, docs, terminated, out, configDirs, workingDirs,
                   planVars, loopVars, ret, deferred, cl, fs, nTmp, projects,
                   result>>

Discover ==
    /\ pc = "start"
    /\ \E ds \in Streams, term \in BOOLEAN :
          /\ ds = <<>> => term
          /\ docs' = ds
          /\ terminated' = term
          /\ out' = StreamOf(ds, term)
    /\ events' = Append(events, Event("discover", NoPath, NoPath, TRUE))
    /\ pc' = "decode"
    /\ UNCHANGED <<useState, configDirs, workingDirs, dirsErr, planVars,
                   loopVars, ret, deferred, cl, fs, nTmp, projects, result>>

\* Lines 124-146: split, trim, decode each segment, return.
Decode ==
    /\ pc = "decode"
    /\ LET r == DecodeDirs(out)
       IN  /\ configDirs' = r.configDirs
           /\ workingDirs' = r.workingDirs
           /\ dirsErr' = IF r.err THEN "decode" ELSE ""
    /\ pc' = "dirs_ret"
    /\ UNCHANGED <<useState, docs, terminated, out, planVars, loopVars, ret,
                   deferred, cl, fs, nTmp, events, projects, result>>

\* ----------------------------------------------------------- LoadResources
\* if p.UseState { generateStateJSONs } else { generatePlanJSONs }
StrategyAlwaysPlan(us) == "pl_checks"

Strategy(us) == IF us THEN "st_checks" ELSE "pl_checks"

\* Lines 64-76: return on a discovery error, else call the generate
\* function UseState selects.  The bytes of the discovery command are local
\* to getProjectDirs and are gone here.
AfterDiscovery ==
    /\ pc = "dirs_ret"
    /\ IF dirsErr # ""
       THEN /\ pc' = "done"
            /\ result' = "err"
       ELSE /\ pc' = Strategy(useState)
            /\ result' = result
    /\ docs' = <<>>
    /\ terminated' = TRUE
    /\ out' = <<>>
    /\ UNCHANGED <<useState, configDirs, workingDirs, dirsErr, planVars,
                   loopVars, ret, deferred, cl, fs, nTmp, events, projects>>

Range(f) == {f[x] : x \in DOMAIN f}
PushLast(stack, call) == Append(stack, call)

\* defer: the call deferred last runs first.
Push(stack, call) == <<call>> \o stack
RemoveOverride(file) == [kind |-> "rmoverride", file |-> file]
CleanupCall == [kind |-> "cleanup", file |-> NoPath]
RootPath == <<"/">>

\* What p.buildCommandOpts can do: fail, having materialized no override
\* file; give options without an override file; give options naming an
\* override file it has just written.
OptsOutcomes == {"fail", "plain", "file"}

\* if opts.TerraformConfigFile != "" { defer os.Remove(opts.TerraformConfigFile) }
NoDeferRemoveOverride(stack, file) == stack

DeferRemoveOverride(stack, file) ==
    IF file # NoPath THEN Push(stack, RemoveOverride(file)) ELSE stack

\* p.buildCommandOpts(path), then `if opts.TerraformConfigFile != "" { defer
\* os.Remove(opts.TerraformConfigFile) }`: it fails, or it gives options
\* without an override file, or it writes a new override file.
BuildOpts(path, o, onFail, next) ==
    /\ o \in OptsOutcomes
    /\ o = "fail" =>
          /\ events' = Append(events, Event("opts", path, NoPath, FALSE))
          /\ ret' = onFail
          /\ pc' = "defers"
          /\ UNCHANGED <<optsFile, deferred, fs, nTmp>>
    /\ o = "plain" =>
          /\ events' = Append(events, Event("opts", path, NoPath, TRUE))
          /\ optsFile' = NoPath
          /\ pc' = next
          /\ UNCHANGED <<ret, deferred, fs, nTmp>>
    /\ o = "file" =>
          /\ events' = Append(events, Event("opts", path, OverrideFile(nTmp + 1), TRUE))
          /\ optsFile' = OverrideFile(nTmp + 1)
          /\ nTmp' = nTmp + 1
          /\ fs' = fs \cup {OverrideFile(nTmp + 1)}
          /\ deferred' = DeferRemoveOverride(deferred, OverrideFile(nTmp + 1))
          /\ pc' = next
          /\ UNCHANGED ret

\* ------------------------------------------------------ generateStateJSONs
\* err := p.checks(); if err != nil { return [][]byte{}, err }
StateChecks ==
    /\ pc = "st_checks"
    /\ \E ok \in BOOLEAN :
          /\ events' = Append(events, Event("checks", NoPath, NoPath, ok))
          /\ IF ok
             THEN /\ pc' = "st_loop"
                  /\ i' = 1
                  /\ outs' = <<>>
                  /\ ret' = ret
             ELSE /\ pc' = "defers"
                  /\ ret' = Return(<<>>, "checks")
                  /\ UNCHANGED <<i, outs>>
    /\ UNCHANGED <<useState, discoveryVars, planVars, optsFile, deferred, cl,
                   fs, nTmp, projects, result>>

\* Lines 163-170; a failure returns [][]byte{}, err.
StateBuildOpts ==
    /\ pc = "st_loop"
    /\ i <= Len(configDirs)
    /\ \E o \in OptsOutcomes :
          BuildOpts(configDirs[i], o, Return(<<>>, "opts"), "st_show")
    /\ UNCHANGED <<useState, discoveryVars, planVars, outs, i, cl, projects,
                   result>>

StateShowSkipsFailure ==
    /\ pc = "st_show"
    /\ \E ok \in BOOLEAN :
          /\ events' = Append(events, Event("show", configDirs[i], NoPath, ok))
          /\ outs' = IF ok THEN Append(outs, ShowOut(configDirs[i], NoPath)) ELSE outs
          /\ i' = i + 1
          /\ pc' = "st_loop"
          /\ ret' = ret
    /\ UNCHANGED <<useState, discoveryVars, planVars, optsFile, deferred, cl,
                   fs, nTmp, projects, result>>

\* Lines 172-176: out, err := p.runShow(opts, spinner, ""); a failure
\* returns outs, err.
StateShow ==
    /\ pc = "st_show"
    /\ \E ok \in BOOLEAN :
          /\ events' = Append(events, Event("show", configDirs[i], NoPath, ok))
          /\ IF ok
             THEN /\ outs' = Append(outs, ShowOut(configDirs[i], NoPath))
                  /\ i' = i + 1
                  /\ pc' = "st_loop"
                  /\ ret' = ret
             ELSE /\ ret' = Return(outs, "show")
                  /\ pc' = "defers"
                  /\ UNCHANGED <<outs, i>>
    /\ UNCHANGED <<useState, discoveryVars, planVars, optsFile, deferred, cl,
                   fs, nTmp, projects, result>>

\* Line 179: return outs, nil.
StateDone ==
    /\ pc = "st_loop"
    /\ i > Len(configDirs)
    /\ ret' = Return(outs, "")
    /\ pc' = "defers"
    /\ UNCHANGED <<useState, discoveryVars, planVars, loopVars, deferred, cl,
                   fs, nTmp, events, projects, result>>

\* ------------------------------------------------------- generatePlanJSONs
\* Lines 183-186.
PlanChecks ==
    /\ pc = "pl_checks"
    /\ \E ok \in BOOLEAN :
          /\ events' = Append(events, Event("checks", NoPath, NoPath, ok))
          /\ IF ok
             THEN /\ pc' = "pl_opts"
                  /\ ret' = ret
             ELSE /\ pc' = "defers"
                  /\ ret' = Return(<<>>, "checks")
    /\ UNCHANGED <<useState, discoveryVars, planVars, loopVars, deferred, cl,
                   fs, nTmp, projects, result>>

\* Lines 188-194: the options of the root path.
PlanRootOpts ==
    /\ pc = "pl_opts"
    /\ \E o \in OptsOutcomes :
          BuildOpts(RootPath, o, Return(<<>>, "opts"), "pl_plan")
    /\ UNCHANGED <<useState, discoveryVars, planVars, outs, i, cl, projects,
                   result>>

\* Lines 198-203: the deferred closure is registered whatever runPlan
\* returned.
ScheduleCleanupUnlessFailed(stack, perr) ==
    IF perr THEN stack ELSE Push(stack, CleanupCall)

ScheduleCleanup(stack, perr) == Push(stack, CleanupCall)

\* What p.runPlan can do: fail; print one plan for the whole tree
\* ("unified"); print nothing, having requested a plan file named pf in every
\* working directory ("perdir").  A failed or a unified run may report an
\* empty file name, a per-directory run reports the name of its plan files;
\* whether plan files were in fact written is the tool's business.
PlanOutcomes ==
    {po \in [o : {"fail", "unified", "perdir"}, pf : {"", PlanName}, wrote : BOOLEAN] :
        /\ po.pf = "" => ~po.wrote
        /\ po.o = "perdir" => po.pf # ""}

\* Lines 196-203: planFile, planJSON, err := p.runPlan(opts, spinner, true).
RunPlan ==
    /\ pc = "pl_plan"
    /\ \E po \in PlanOutcomes :
          /\ planErr' = (po.o = "fail")
          /\ planFile' = po.pf
          /\ planJSON' = IF po.o = "unified" THEN UnifiedJSON ELSE <<>>
          /\ fs' = fs \cup (IF po.wrote
                            THEN {Join(w, po.pf) : w \in Range(workingDirs)}
                            ELSE {})
          /\ events' = Append(events, Event("plan", RootPath, NoPath, po.o # "fail"))
          /\ deferred' = ScheduleCleanup(deferred, po.o = "fail")
    /\ pc' = "pl_branch"
    /\ UNCHANGED <<useState, discoveryVars, loopVars, ret, cl, nTmp, projects,
                   result>>

\* if len(planJSON) > 0
UnifiedPlan(json) == Len(json) > 0

\* Lines 205-218.
PlanBranch ==
    /\ pc = "pl_branch"
    /\ IF planErr
       THEN /\ ret' = Return(<<>>, "plan")
            /\ pc' = "defers"
            /\ UNCHANGED <<outs, i>>
       ELSE IF UnifiedPlan(planJSON)
            THEN /\ ret' = Return(<<planJSON>>, "")
                 /\ pc' = "defers"
                 /\ UNCHANGED <<outs, i>>
            ELSE /\ outs' = <<>>
                 /\ i' = 1
                 /\ pc' = "pl_loop"
                 /\ ret' = ret
    /\ UNCHANGED <<useState, discoveryVars, planVars, optsFile, deferred, cl,
                   fs, nTmp, events, projects, result>>

\* Lines 220-227; a failure returns [][]byte{}, err.
PlanBuildOpts ==
    /\ pc = "pl_loop"
    /\ i <= Len(configDirs)
    /\ \E o \in OptsOutcomes :
          BuildOpts(configDirs[i], o, Return(<<>>, "opts"), "pl_show")
    /\ UNCHANGED <<useState, discoveryVars, planVars, outs, i, cl, projects,
                   result>>

\* filepath.Join(workingDirs[i], planFile)
ShowPlanPathInConfigDir(k) == Join(configDirs[k], planFile)

ShowPlanPath(k) == Join(workingDirs[k], planFile)

\* Lines 229-233; a failure returns outs, err.
PlanShow ==
    /\ pc = "pl_show"
    /\ \E ok \in BOOLEAN :
          /\ events' = Append(events, Event("show", configDirs[i], ShowPlanPath(i), ok))
          /\ IF ok
             THEN /\ outs' = Append(outs, ShowOut(configDirs[i], ShowPlanPath(i)))
                  /\ i' = i + 1
                  /\ pc' = "pl_loop"
                  /\ ret' = ret
             ELSE /\ ret' = Return(outs, "show")
                  /\ pc' = "defers"
                  /\ UNCHANGED <<outs, i>>
    /\ UNCHANGED <<useState, discoveryVars, planVars, optsFile, deferred, cl,
                   fs, nTmp, projects, result>>

\* Line 236: return outs, nil.
PlanDone ==
    /\ pc = "pl_loop"
    /\ i > Len(configDirs)
    /\ ret' = Return(outs, "")
    /\ pc' = "defers"
    /\ UNCHANGED <<useState, discoveryVars, planVars, loopVars, deferred, cl,
                   fs, nTmp, events, projects, result>>

\* ------------------------------------------- deferred calls, last one first
\* defer os.Remove(opts.TerraformConfigFile); its error is dropped.
RunDeferredRemove ==
    /\ pc = "defers"
    /\ deferred # <<>>
    /\ Head(deferred).kind = "rmoverride"
    /\ events' = Append(events, Event("rmoverride", NoPath, Head(deferred).file,
                                      Head(deferred).file \in fs))
    /\ fs' = fs \ {Head(deferred).file}
    /\ deferred' = Tail(deferred)
    /\ UNCHANGED <<pc, useState, discoveryVars, planVars, loopVars, ret, cl,
                   nTmp, projects, result>>

\* if planFile == "" { return nil }
NeverNothingToClean(name) == FALSE

NothingToClean(name) == name = ""

\* The deferred closure calls cleanupPlanFiles(workingDirs, planFile);
\* lines 239-242: with an empty planFile it returns nil at once.
CleanupStart ==
    /\ pc = "defers"
    /\ deferred # <<>>
    /\ Head(deferred).kind = "cleanup"
    /\ events' = Append(events, Event("cleanup", NoPath, Join(NoPath, planFile), TRUE))
    /\ cl' = [active |-> TRUE, idx |-> 1, err |-> FALSE]
    /\ pc' = IF NothingToClean(planFile) THEN "cl_ret" ELSE "cl_loop"
    /\ UNCHANGED <<useState, discoveryVars, planVars, loopVars, ret, deferred,
                   fs, nTmp, projects, result>>

\* if err != nil { return err }
CleanupNeverStops(ok) == FALSE

CleanupStops(ok) == ~ok

\* Lines 244-249: os.Remove(filepath.Join(path, planFile)) fails when the
\* file does not exist and may fail when it does.
CleanupRemove ==
    /\ pc = "cl_loop"
    /\ cl.idx <= Len(workingDirs)
    /\ LET f == Join(workingDirs[cl.idx], planFile)
       IN  \E ok \in (IF f \in fs THEN BOOLEAN ELSE {FALSE}) :
              /\ events' = Append(events, Event("rmplan", workingDirs[cl.idx], f, ok))
              /\ fs' = IF ok THEN fs \ {f} ELSE fs
              /\ IF CleanupStops(ok)
                 THEN /\ cl' = [cl EXCEPT !.err = ~ok]
                      /\ pc' = "cl_ret"
                 ELSE /\ cl' = [cl EXCEPT !.idx = cl.idx + 1]
                      /\ pc' = "cl_loop"
    /\ UNCHANGED <<useState, discoveryVars, planVars, loopVars, ret, deferred,
                   nTmp, projects, result>>

\* Line 251: return nil.
CleanupDone ==
    /\ pc = "cl_loop"
    /\ cl.idx > Len(workingDirs)
    /\ pc' = "cl_ret"
    /\ UNCHANGED <<useState, discoveryVars, planVars, loopVars, ret, deferred,
                   cl, fs, nTmp, events, projects, result>>

\* What generatePlanJSONs returns once the deferred closure has run: the
\* closure only logs the error of cleanupPlanFiles.
AfterCleanupReturnsError(r, cerr) ==
    IF cerr THEN [r EXCEPT !.err = "cleanup"] ELSE r

AfterCleanup(r, cerr) == r

\* Lines 199-202.
CleanupReturns ==
    /\ pc = "cl_ret"
    /\ events' = IF cl.err
                 THEN Append(events, Event("warn", NoPath, NoPath, FALSE))
                 ELSE events
    /\ ret' = AfterCleanup(ret, cl.err)
    /\ cl' = [cl EXCEPT !.active = FALSE]
    /\ deferred' = Tail(deferred)
    /\ pc' = "defers"
    /\ UNCHANGED <<useState, discoveryVars, planVars, loopVars, fs, nTmp,
                   projects, result>>

\* The generate function returns to LoadResources, lines 77-81.
AfterGenerate ==
    /\ pc = "defers"
    /\ deferred = <<>>
    /\ IF ret.err # ""
       THEN /\ result' = "err"
            /\ pc' = "done"
            /\ UNCHANGED <<i, projects>>
       ELSE /\ pc' = "asm_loop"
            /\ i' = 1
            /\ projects' = <<>>
            /\ result' = result
    /\ UNCHANGED <<useState, discoveryVars, planVars, optsFile, outs, ret,
                   deferred, cl, fs, nTmp, events>>

\* Lines 83-104: one project per configuration directory, from outs[i];
\* reading outs[i] past the end of outs panics.
Assemble ==
    /\ pc = "asm_loop"
    /\ i <= Len(configDirs)
    /\ IF i > Len(ret.outs)
       THEN /\ result' = "panic"
            /\ pc' = "done"
            /\ UNCHANGED <<i, projects>>
       ELSE \E ok \in BOOLEAN :
              IF ok
              THEN /\ projects' = Append(projects,
                                     [path |-> configDirs[i], json |-> ret.outs[i]])
                   /\ i' = i + 1
                   /\ UNCHANGED <<pc, result>>
              ELSE /\ result' = "err"
                   /\ pc' = "done"
                   /\ UNCHANGED <<i, projects>>
    /\ UNCHANGED <<useState, discoveryVars, planVars, optsFile, outs, ret,
                   deferred, cl, fs, nTmp, events>>

\* Line 106: return projects, nil.
AssembleDone ==
    /\ pc = "asm_loop"
    /\ i > Len(configDirs)
    /\ result' = "ok"
    /\ pc' = "done"
    /\ UNCHANGED <<useState, discoveryVars, planVars, loopVars, ret, deferred,
                   cl, fs, nTmp, events, projects>>

Next ==
    \/ DiscoverFails
    \/ Discover
    \/ Decode
    \/ AfterDiscovery
    \/ StateChecks
    \/ StateBuildOpts
    \/ StateShow
    \/ StateDone
    \/ PlanChecks
    \/ PlanRootOpts
    \/ RunPlan
    \/ PlanBranch
    \/ PlanBuildOpts
    \/ PlanShow
    \/ PlanDone
    \/ RunDeferredRemove
    \/ CleanupStart
    \/ CleanupRemove
    \/ CleanupDone
    \/ CleanupReturns
    \/ AfterGenerate
    \/ Assemble
    \/ AssembleDone

Spec == Init /\ [][Next]_vars

\* ------------------------------------------------------------ the claims
EventsOf(op) == SelectSeq(events, LAMBDA e : e.op = op)
CommandEvents == SelectSeq(events, LAMBDA e : e.op \in {"checks", "opts", "plan", "show"})
NumDirs == Len(configDirs)

\* The generate function has run its return statement and all its deferred
\* calls: it has returned to LoadResources.
GenerateReturned ==
    /\ ret.set
    /\ \/ pc = "defers" /\ deferred = <<>>
       \/ pc \in {"asm_loop", "done"}
StateReturned == useState /\ GenerateReturned
PlanReturned == ~useState /\ GenerateReturned
PlanStepRan == EventsOf("plan") # <<>>

\* C1: whenever the generate function succeeds, there are as many outputs
\* as configuration directories and as working directories.
C1_OneOutputPerDirectory ==
    (GenerateReturned /\ ret.err = "")
        => /\ Len(configDirs) = Len(workingDirs)
           /\ Len(ret.outs) = Len(configDirs)

\* C2: generatePlanJSONs, once the plan command has succeeded: with a
\* non-empty plan JSON no show command is ever run and the result is that
\* JSON alone; with an empty one, a return without error has run exactly
\* one show per directory, in order, the k-th one in configDirs[k] pointed
\* at join(workingDirs[k], planFile), its output stored at position k.
C2_PlanBranchesOnJSON ==
    (~useState /\ PlanStepRan /\ ~planErr) =>
        /\ planJSON # <<>> =>
              /\ EventsOf("show") = <<>>
              /\ GenerateReturned => ret.outs = <<planJSON>> /\ ret.err = ""
        /\ (planJSON = <<>> /\ GenerateReturned /\ ret.err = "") =>
              /\ Len(ret.outs) = NumDirs
              /\ Len(EventsOf("show")) = NumDirs
              /\ \A k \in 1..NumDirs :
                    /\ EventsOf("show")[k].dir = configDirs[k]
                    /\ EventsOf("show")[k].arg = Join(workingDirs[k], planFile)
                    /\ EventsOf("show")[k].ok
                    /\ ret.outs[k] = ShowOut(configDirs[k], Join(workingDirs[k], planFile))

C2_Witness ==
    /\ PlanReturned /\ ~planErr /\ planJSON = <<>> /\ ret.err = ""
    /\ planFile = PlanName
    /\ NumDirs = 2
    /\ configDirs[1] # configDirs[2]
    /\ Len(ret.outs) = 2

\* C3 as stated: on every return of generatePlanJSONs cleanupPlanFiles has
\* been called exactly once, with the plan file name of the plan step.
C3_CleanupOnEveryReturn ==
    PlanReturned =>
        /\ Len(EventsOf("cleanup")) = 1
        /\ EventsOf("cleanup")[1].arg = Join(NoPath, planFile)

\* C3 amended: on every return of generatePlanJSONs that follows the plan
\* step (unified plan, per-directory fallback, plan failure, option or show
\* failure in the loop) cleanupPlanFiles has been called exactly once, after
\* the plan command, with the plan file name the plan step produced; on the
\* returns that precede the plan step (checks or the root options failed)
\* it has not been called.
C3_CleanupOnceAfterPlanStep ==
    PlanReturned =>
        IF PlanStepRan
        THEN /\ Len(EventsOf("cleanup")) = 1
             /\ EventsOf("cleanup")[1].arg = Join(NoPath, planFile)
             /\ \E x, y \in 1..Len(events) :
                    /\ x < y
                    /\ events[x].op = "plan"
                    /\ events[y].op = "cleanup"
        ELSE /\ EventsOf("cleanup") = <<>>
             /\ ret.err \in {"checks", "opts"}

C3_Witness ==
    /\ PlanReturned
    /\ planErr
    /\ planFile = PlanName
    /\ NumDirs >= 2
    /\ Len(EventsOf("cleanup")) = 1
    /\ EventsOf("rmplan") # <<>>

\* What the commands generatePlanJSONs ran, and their outcomes, make it
\* return; no removal of a file is among them.
LastCommand == CommandEvents[Len(CommandEvents)]
OkShows == SelectSeq(events, LAMBDA e : e.op = "show" /\ e.ok)
ResultOfCommands ==
    IF ~LastCommand.ok
    THEN [outs |-> IF LastCommand.op = "show"
                   THEN [k \in 1..Len(OkShows) |-> ShowOut(OkShows[k].dir, OkShows[k].arg)]
                   ELSE <<>>,
          err |-> LastCommand.op]
    ELSE [outs |-> IF planJSON # <<>>
                   THEN <<planJSON>>
                   ELSE [k \in 1..Len(OkShows) |-> ShowOut(OkShows[k].dir, OkShows[k].arg)],
          err |-> ""]

\* C4: what generatePlanJSONs returns is decided by the outcomes of its
\* commands alone, whether or not cleanupPlanFiles failed; with 3
\* directories, an empty plan JSON, 3 successful shows and a failed removal
\* in the 2nd working directory it returns the 3 outputs and no error.
C4_CleanupFailureNotReturned ==
    PlanReturned =>
        /\ ret.outs = ResultOfCommands.outs
        /\ ret.err = ResultOfCommands.err
        /\ ( /\ NumDirs = 3
             /\ PlanStepRan /\ ~planErr /\ planJSON = <<>>
             /\ Len(OkShows) = 3
             /\ Len(EventsOf("rmplan")) = 2
             /\ ~EventsOf("rmplan")[2].ok )
           => Len(ret.outs) = 3 /\ ret.err = ""

C4_Witness ==
    /\ PlanReturned
    /\ NumDirs = 3
    /\ planJSON = <<>>
    /\ Len(OkShows) = 3
    /\ Len(EventsOf("rmplan")) = 2
    /\ EventsOf("rmplan")[1].ok
    /\ ~EventsOf("rmplan")[2].ok
    /\ EventsOf("warn") # <<>>
    /\ Len(ret.outs) = 3

\* The directory the loop of the generate function stopped at (1-based).
FailedAt == Len(EventsOf("opts")) - (IF useState THEN 0 ELSE 1)

\* C5: generateStateJSONs returns, when nothing fails, one output per
\* directory, output k the show result of configDirs[k]; when directory k
\* fails, in building its options or in its show, it returns the k-1
\* outputs collected so far with the error and processes no later directory.
C5_StatePartialOutputs ==
    StateReturned =>
        /\ ret.err = "" =>
              /\ Len(ret.outs) = NumDirs
              /\ \A k \in 1..NumDirs : ret.outs[k] = ShowOut(configDirs[k], NoPath)
        /\ ret.err \in {"opts", "show"} =>
              /\ Len(ret.outs) = FailedAt - 1
              /\ \A k \in 1..Len(ret.outs) : ret.outs[k] = ShowOut(configDirs[k], NoPath)
              /\ Len(EventsOf("show")) <= FailedAt

\* C6: in the per-directory fallback of generatePlanJSONs a failure on
\* directory k, in building its options or in its show, returns the outputs
\* collected for directories 1..k-1 with the error.
C6_PlanPartialOutputs ==
    (PlanReturned /\ PlanStepRan /\ ~planErr /\ planJSON = <<>>
        /\ ret.err \in {"opts", "show"}) =>
        /\ Len(ret.outs) = FailedAt - 1
        /\ \A k \in 1..Len(ret.outs) :
              ret.outs[k] = ShowOut(configDirs[k], Join(workingDirs[k], planFile))

\* getProjectDirs has returned after a successful discovery command.
DirsReturned == pc = "dirs_ret" /\ dirsErr # "cmd"
AllWellFormed == \A k \in 1..Len(docs) : WellFormed(docs[k])

\* C7: for a stream of N >= 1 well-formed documents, each followed by a
\* newline, getProjectDirs returns no error and N directories of each kind,
\* the k-th ones being the directory of the k-th document's ConfigPath and
\* the k-th document's WorkingDir.
C7_OneRecordPerDocument ==
    (DirsReturned /\ Len(docs) >= 1 /\ terminated /\ AllWellFormed) =>
        /\ dirsErr = ""
        /\ configDirs = [k \in 1..Len(docs) |-> <<"/", docs[k].mod>>]
        /\ workingDirs = [k \in 1..Len(docs) |-> <<"/", docs[k].mod, ".terragrunt-cache">>]

C7_Witness ==
    /\ DirsReturned /\ terminated /\ AllWellFormed
    /\ Len(docs) = 3
    /\ docs[1].mod # docs[2].mod
    /\ docs[1].layout = "pretty" /\ docs[2].layout = "extra"
    /\ Len(configDirs) = 3

\* C8: for an empty stream getProjectDirs returns two empty sequences and
\* no error.
C8_EmptyStreamNoError ==
    (DirsReturned /\ docs = <<>>) =>
        /\ dirsErr = ""
        /\ configDirs = <<>>
        /\ workingDirs = <<>>

\* C9: a stream of exactly one document yields exactly one record, whether
\* or not a newline follows the document's closing brace.
C9_SingleDocumentKept ==
    (DirsReturned /\ Len(docs) = 1 /\ AllWellFormed) =>
        /\ dirsErr = ""
        /\ Len(configDirs) = 1
        /\ Len(workingDirs) = 1
        /\ configDirs[1] = <<"/", docs[1].mod>>

C9_Witness ==
    /\ DirsReturned /\ Len(docs) = 1 /\ AllWellFormed
    /\ ~terminated
    /\ Len(configDirs) = 1

\* C10: cleanupPlanFiles with a non-empty file name attempts the removal of
\* join(workingDirs[k], planFile) for k = 1, 2, ... in order, each at most
\* once; every attempt but the last has succeeded and its file is gone; once
\* the call is over, it returned an error exactly when the last attempt
\* failed, and without an error every directory was attempted.
C10_CleanupStopsAtFirstFailure ==
    LET rms == EventsOf("rmplan")
    IN  /\ Len(rms) <= Len(workingDirs)
        /\ \A k \in 1..Len(rms) :
              /\ rms[k].arg = Append(workingDirs[k], planFile)
              /\ rms[k].dir = workingDirs[k]
              /\ k < Len(rms) => rms[k].ok
              /\ rms[k].ok => rms[k].arg \notin fs
        /\ (planFile # "" /\ EventsOf("cleanup") # <<>> /\ ~cl.active) =>
              /\ cl.err = (rms # <<>> /\ ~rms[Len(rms)].ok)
              /\ ~cl.err => Len(rms) = Len(workingDirs)

C10_Witness ==
    /\ planFile # "" /\ EventsOf("cleanup") # <<>> /\ ~cl.active
    /\ Len(workingDirs) = 3
    /\ Len(EventsOf("rmplan")) = 2
    /\ EventsOf("rmplan")[1].ok
    /\ ~EventsOf("rmplan")[2].ok
    /\ cl.err
    /\ Append(workingDirs[3], planFile) \in fs

\* cleanupPlanFiles is about to be called, or is running.
InCleanup ==
    \/ pc \in {"cl_loop", "cl_ret"}
    \/ pc = "defers" /\ deferred # <<>> /\ Head(deferred).kind = "cleanup"

\* C11: no step of a cleanupPlanFiles call with an empty file name touches
\* the file system, attempts a removal or makes the call fail, whatever the
\* working directories are.
C11_EmptyNameCleansNothing ==
    [][(InCleanup /\ planFile = "") =>
          /\ fs' = fs
          /\ EventsOf("rmplan")' = <<>>
          /\ EventsOf("warn")' = <<>>
          /\ ~cl'.err]_vars

C11_Witness ==
    /\ ~useState /\ pc = "defers"
    /\ EventsOf("cleanup") # <<>> /\ ~cl.active
    /\ planFile = "" /\ planJSON # <<>> /\ ~planErr
    /\ Len(workingDirs) >= 2
    /\ fs # {}

\* getProjectDirs has returned.
DirsCallOver == pc = "dirs_ret"
ConfigDirOfDoc(d) == <<"/", d.mod>>
WorkingDirOfDoc(d) == <<"/", d.mod, ".terragrunt-cache">>

\* C12: when the discovery command fails, getProjectDirs returns the error
\* with two empty sequences and has decoded nothing; when it returns a
\* decode error, the segment it stopped at is the first one that is no JSON
\* object, at position k, and it returns the k-1 configuration directories
\* and the k-1 working directories of the documents before it, in stream
\* order.
C12_DiscoveryErrorOutcomes ==
    DirsCallOver =>
        /\ dirsErr = "cmd" =>
              /\ configDirs = <<>>
              /\ workingDirs = <<>>
              /\ out = <<>>
        /\ dirsErr = "decode" =>
              /\ Len(workingDirs) = Len(configDirs)
              /\ Len(configDirs) <= Len(docs)
              /\ \A k \in 1..Len(configDirs) :
                    /\ WellFormed(docs[k])
                    /\ configDirs[k] = ConfigDirOfDoc(docs[k])
                    /\ workingDirs[k] = WorkingDirOfDoc(docs[k])
              /\ docs # <<>> =>
                    /\ Len(configDirs) < Len(docs)
                    /\ ~WellFormed(docs[Len(configDirs) + 1])

C12_Witness ==
    /\ DirsCallOver
    /\ dirsErr = "decode"
    /\ Len(docs) = 3
    /\ Len(configDirs) = 1
    /\ WellFormed(docs[3])

\* The override files buildCommandOpts has created, in order.
CreatedOverrides == SelectSeq(events, LAMBDA e : e.op = "opts" /\ e.arg # NoPath)
RemovalsOf(file) == SelectSeq(events, LAMBDA e : e.op = "rmoverride" /\ e.arg = file)

\* C13: an override file is removed only by the deferred calls of the
\* generate function that created it, after its return statement and so
\* after every command of the call; it is never removed twice; and once the
\* function has returned, on whichever path, every override file it created
\* has been removed exactly once and is gone.
C13_OverridesRemovedOnceAtReturn ==
    /\ \A x \in 1..Len(events) :
          events[x].op = "rmoverride" =>
              /\ ret.set
              /\ \E c \in 1..Len(CreatedOverrides) :
                    CreatedOverrides[c].arg = events[x].arg
              /\ events[x].ok
              /\ \A y \in (x + 1)..Len(events) :
                    events[y].op \notin {"checks", "opts", "plan", "show"}
    /\ \A c \in 1..Len(CreatedOverrides) :
          /\ Len(RemovalsOf(CreatedOverrides[c].arg)) <= 1
          /\ GenerateReturned =>
                /\ Len(RemovalsOf(CreatedOverrides[c].arg)) = 1
                /\ CreatedOverrides[c].arg \notin fs

C13_Witness ==
    /\ StateReturned
    /\ ret.err = "show"
    /\ Len(CreatedOverrides) = 2
    /\ Len(EventsOf("rmoverride")) = 2
    /\ Len(EventsOf("show")) = 3

\* The external commands LoadResources has run, in order.
ExternalCommands == SelectSeq(events, LAMBDA e : e.op \in {"discover", "plan", "show"})

\* C14: the discovery command and the plan command are run at most once,
\* the k-th show is the one of the k-th configuration directory, so that no
\* directory is shown twice, and a failed external command is the last one.
C14_NoRetryFailureTerminal ==
    /\ Len(EventsOf("discover")) <= 1
    /\ Len(EventsOf("plan")) <= 1
    /\ Len(EventsOf("show")) <= NumDirs
    /\ \A k \in 1..Len(EventsOf("show")) : EventsOf("show")[k].dir = configDirs[k]
    /\ \A x \in 1..Len(ExternalCommands) :
          ~ExternalCommands[x].ok => x = Len(ExternalCommands)

C14_Witness ==
    /\ pc = "done"
    /\ NumDirs = 3
    /\ Len(EventsOf("plan")) = 1
    /\ Len(EventsOf("show")) = 2
    /\ EventsOf("show")[1].ok
    /\ ~EventsOf("show")[2].ok
    /\ result = "err"

StatePcs == {"st_checks", "st_loop", "st_show"}
PlanPcs == {"pl_checks", "pl_opts", "pl_plan", "pl_branch", "pl_loop", "pl_show",
            "cl_loop", "cl_ret"}

\* C15: with UseState set, generatePlanJSONs is never run: no plan command,
\* no call of cleanupPlanFiles, no removal of a plan file, and every show
\* has an empty plan-file argument; with UseState unset, generateStateJSONs
\* is never run and every show is pointed at a file named planFile, a
\* non-empty name, in one of the working directories.
C15_StrategiesExclusive ==
    /\ useState =>
          /\ pc \notin PlanPcs
          /\ EventsOf("plan") = <<>>
          /\ EventsOf("cleanup") = <<>>
          /\ EventsOf("rmplan") = <<>>
          /\ \A k \in 1..Len(EventsOf("show")) : EventsOf("show")[k].arg = NoPath
    /\ ~useState =>
          /\ pc \notin StatePcs
          /\ \A k \in 1..Len(EventsOf("show")) :
                /\ EventsOf("show")[k].arg # NoPath
                /\ planFile # ""
                /\ \E w \in 1..Len(workingDirs) :
                      /\ workingDirs[w] # NoPath
                      /\ EventsOf("show")[k].arg = Append(workingDirs[w], planFile)

C15_Witness ==
    /\ ~useState
    /\ pc = "done"
    /\ result = "ok"
    /\ NumDirs = 2
    /\ Len(EventsOf("show")) = 2
    /\ EventsOf("show")[1].arg # EventsOf("show")[2].arg

\* C16: the assembly loop of LoadResources reads outs[i] only where it
\* exists, never panics, and returns one project per configuration
\* directory when it returns without error.
C16_AssemblyReadsInBounds ==
    /\ (pc = "asm_loop" /\ i <= NumDirs) => i <= Len(ret.outs)
    /\ result # "panic"
    /\ result = "ok" => Len(projects) = NumDirs

\* The override file of the root options of generatePlanJSONs, if any.
RootOverride ==
    IF ~useState /\ EventsOf("opts") # <<>> THEN EventsOf("opts")[1].arg ELSE NoPath

\* C17: in generatePlanJSONs no show follows the call of cleanupPlanFiles
\* or a removal of a plan file, so that a plan file is removed only after
\* the show that read it has returned; the override files of the
\* directories are removed before cleanupPlanFiles is called, and the root
\* override file after cleanupPlanFiles is over.
C17_CleanupAfterShows ==
    ~useState =>
        \A x \in 1..Len(events) :
            /\ events[x].op \in {"cleanup", "rmplan"} =>
                  \A y \in (x + 1)..Len(events) : events[y].op # "show"
            /\ (events[x].op = "rmoverride" /\ events[x].arg # RootOverride) =>
                  \A y \in 1..x : events[y].op \notin {"cleanup", "rmplan"}
            /\ (events[x].op = "rmoverride" /\ events[x].arg = RootOverride
                    /\ PlanStepRan) =>
                  /\ \E y \in 1..x : events[y].op = "cleanup"
                  /\ ~cl.active
                  /\ \A y \in (x + 1)..Len(events) :
                        events[y].op \notin {"cleanup", "rmplan", "warn"}

C17_Witness ==
    /\ PlanReturned
    /\ RootOverride # NoPath
    /\ Len(CreatedOverrides) = 3
    /\ Len(EventsOf("rmoverride")) = 3
    /\ Len(EventsOf("show")) = 2
    /\ Len(EventsOf("rmplan")) = 2
    /\ EventsOf("rmplan")[1].arg = EventsOf("show")[1].arg

\* C18: the two sequences of getProjectDirs always have the same length and
\* their k-th elements come from the same document, the k-th of the stream,
\* also when it returns a decode error with what it had decoded; so the
\* index of workingDirs in the loop of generatePlanJSONs is in bounds.
C18_ParallelDirectories ==
    /\ Len(configDirs) = Len(workingDirs)
    /\ \A k \in 1..Len(configDirs) :
          \E m \in Modules :
              /\ configDirs[k] = <<"/", m>>
              /\ workingDirs[k] = <<"/", m, ".terragrunt-cache">>
    /\ DirsCallOver =>
          /\ Len(configDirs) <= Len(docs)
          /\ \A k \in 1..Len(configDirs) :
                /\ configDirs[k] = ConfigDirOfDoc(docs[k])
                /\ workingDirs[k] = WorkingDirOfDoc(docs[k])
    /\ pc = "pl_show" => i \in 1..Len(workingDirs)

C18_Witness ==
    /\ DirsCallOver
    /\ dirsErr = "decode"
    /\ Len(workingDirs) = 1
    /\ Len(docs) = 3
    /\ docs[1].mod = "b"
    /\ docs[2].layout = "truncated"

====
